---- MODULE Spec2Model ----
(***************************************************************************)
(* Model of the limit-up analysis helpers of ZTFX.py:                      *)
(*   analyze_continuous_limit_up, get_concept_counts and                   *)
(*   calculate_promotion_rates, applied to the two daily snapshots         *)
(*   (previous_df = the earlier trading day, current_df = the later one).  *)
(*                                                                         *)
(* A DataFrame is a record [columns, rows]: the set of its column names    *)
(* and the sequence of its rows, each row a function from the column names *)
(* to values.  Column names of the model:                                  *)
(*   "code"   = '股票代码'                                                 *)
(*   "name"   = '股票简称'                                                 *)
(*   "days"   = '连续涨停天数[<date>]'  (the date of the frame)            *)
(*   "reason" = '涨停原因类别[<date>]'  (the date of the frame)            *)
(*   "zt_reason" = '涨停原因' (the renamed reason column of the results)   *)
(* A Python string is a sequence of one-character strings, so that         *)
(* splitting on '+' is computed, not assumed.                              *)
(***************************************************************************)
EXTENDS Integers, Sequences, FiniteSets, TLC

VARIABLES previous_df, current_df, ret

vars == <<previous_df, current_df, ret>>

\* --------------------------------------------------------------------------
\* Bounds of the model
\* --------------------------------------------------------------------------
MaxRows == 3
MaxDays == 2
MaxBareRows == 2
MaxBareDays == 1
MaxTagRows == 2
MaxTagsPerReason == 2

Codes == {"A", "B", "C"}

\* '未知', the placeholder written into a missing reason column
WEIZHI == <<"wei", "zhi">>

\* the reason strings of the promotion specifications
PromoReasons == {<<"x", "+", "y">>}

\* the concept tags of the concept-count specification
Tags == {<<"A", "I">>, <<"x">>}

\* --------------------------------------------------------------------------
\* Python strings
\* --------------------------------------------------------------------------
Digit(d) == CASE d = 0 -> "0" [] d = 1 -> "1" [] d = 2 -> "2" [] d = 3 -> "3"
              [] d = 4 -> "4" [] d = 5 -> "5" [] d = 6 -> "6" [] d = 7 -> "7"
              [] d = 8 -> "8" [] d = 9 -> "9"

RECURSIVE IntToStr(_)
\* str(n) / f"{n}" of a non-negative integer
IntToStr(n) == IF n < 10 THEN Digit(n) ELSE IntToStr(n \div 10) \o Digit(n % 10)

\* code point order of the characters used (for the sort on the reason column)
CharRank(c) == CASE c = "+" -> 43 [] c = "A" -> 65 [] c = "I" -> 73
                 [] c = "x" -> 120 [] c = "y" -> 121
                 [] c = "wei" -> 26410 [] c = "zhi" -> 30693

RECURSIVE StrLess(_, _)
\* s < t for Python strings
StrLess(s, t) ==
    IF t = <<>> THEN FALSE
    ELSE IF s = <<>> THEN TRUE
    ELSE IF Head(s) # Head(t) THEN CharRank(Head(s)) < CharRank(Head(t))
    ELSE StrLess(Tail(s), Tail(t))

RECURSIVE SplitFrom(_, _, _)
\* the pieces of s split on the separator, cur being the piece in progress
SplitFrom(s, sep, cur) ==
    IF s = <<>> THEN <<cur>>
    ELSE IF Head(s) = sep THEN <<cur>> \o SplitFrom(Tail(s), sep, <<>>)
    ELSE SplitFrom(Tail(s), sep, Append(cur, Head(s)))

\* variant: s.split('+', n=1)[0], the first piece alone
StrSplit_FirstOnly(s) == <<Head(SplitFrom(s, "+", <<>>))>>

\* s.split('+')
StrSplit(s) == SplitFrom(s, "+", <<>>)

\* --------------------------------------------------------------------------
\* DataFrames
\* --------------------------------------------------------------------------
AllColumns == {"code", "name", "days", "reason"}

\* the stock's short name ('股票简称'), carried along with its code
NameOf(c) == <<"name", c>>

\* df.empty
IsEmpty(df) == Len(df.rows) = 0

\* df[col].max() of a non-empty frame
MaxDaysOf(df) ==
    CHOOSE m \in {df.rows[i].days : i \in 1..Len(df.rows)} :
        \A i \in 1..Len(df.rows) : df.rows[i].days <= m

\* df['股票代码'] as a set of values (the argument of isin)
CodesOf(df) == {df.rows[i].code : i \in 1..Len(df.rows)}

\* df[reason_col] = '未知': add the column, the same value in every row
WithReasonColumn(df) ==
    [columns |-> df.columns \cup {"reason"},
     rows |-> [i \in 1..Len(df.rows) |->
                 [c \in df.columns \cup {"reason"} |->
                     IF c = "reason" THEN WEIZHI ELSE df.rows[i][c]]]]

\* df[['股票代码', '股票简称', days_col, reason_col]].copy() followed by
\* rename(columns={reason_col: '涨停原因'}) on the copy
SelectAndRename(rows) ==
    [i \in 1..Len(rows) |->
        [code |-> rows[i].code, name |-> rows[i].name,
         days |-> rows[i].days, zt_reason |-> rows[i].reason]]

\* --------------------------------------------------------------------------
\* analyze_continuous_limit_up
\* --------------------------------------------------------------------------
\* the order of sort_values([days, reason], ascending=[False, True])
SortsBefore(r, q) ==
    \/ r.days > q.days
    \/ r.days = q.days /\ StrLess(r.reason, q.reason)

RECURSIVE InsertSorted(_, _)
InsertSorted(r, s) ==
    IF s = <<>> THEN <<r>>
    ELSE IF SortsBefore(r, Head(s)) THEN <<r>> \o s
    ELSE <<Head(s)>> \o InsertSorted(r, Tail(s))

RECURSIVE SortValues(_)
\* a stable sort: rows equal in both keys keep their order
SortValues(rows) ==
    IF rows = <<>> THEN <<>>
    ELSE InsertSorted(rows[Len(rows)], SortValues(SubSeq(rows, 1, Len(rows) - 1)))

\* the frame after the "make sure the reason column exists" step
EnsureReasonColumn(df) ==
    IF "reason" \notin df.columns THEN WithReasonColumn(df) ELSE df

\* the result frame: one row per stock of the sorted frame
ContinuousResult(df) ==
    LET sorted == SortValues(df.rows)
    IN  [i \in 1..Len(sorted) |->
            [continuous_days |-> sorted[i].days, code |-> sorted[i].code,
             name |-> sorted[i].name, reason_category |-> sorted[i].reason]]

\* --------------------------------------------------------------------------
\* get_concept_counts
\* --------------------------------------------------------------------------
RECURSIVE Explode(_)
\* df[reason_col].str.split('+').explode(): every piece of every row, in order
Explode(rows) ==
    IF rows = <<>> THEN <<>>
    ELSE StrSplit(Head(rows).reason) \o Explode(Tail(rows))

\* concepts.value_counts(): concept -> number of occurrences
ValueCounts(concepts) ==
    [t \in {concepts[i] : i \in 1..Len(concepts)} |->
        Cardinality({i \in 1..Len(concepts) : concepts[i] = t})]

ConceptCounts(df) ==
    IF "reason" \notin df.columns
    THEN [status |-> "KeyError", value |-> <<>>]
    ELSE [status |-> "ok", value |-> ValueCounts(Explode(df.rows))]

\* --------------------------------------------------------------------------
\* calculate_promotion_rates
\* --------------------------------------------------------------------------
\* variant: the percentage truncated instead of rounded
PercentStr_Truncated(success, total) == IntToStr((100 * success) \div total) \o "%"

\* f"{x:.0%}" of x = success / total: the nearest whole percent, a tie going
\* to the even one
PercentStr(success, total) ==
    LET q == (100 * success) \div total
        r == (100 * success) % total
        p == IF 2 * r < total THEN q
             ELSE IF 2 * r > total THEN q + 1
             ELSE IF q % 2 = 0 THEN q ELSE q + 1
    IN  IntToStr(p) \o "%"

\* f"{success}/{total}={success / total:.0%}" if total > 0 else "N/A"
RateStr(success, total) ==
    IF total > 0
    THEN IntToStr(success) \o "/" \o IntToStr(total) \o "=" \o PercentStr(success, total)
    ELSE "N/A"

\* f"{days}进{days + 1}"
LevelStr(days) == IntToStr(days) \o "jin" \o IntToStr(days + 1)

\* previous_df[previous_df[previous_days_col] == days]: a boolean mask keeps
\* the rows that satisfy it, in their order
PrevStocks(prev, days) == SelectSeq(prev.rows, LAMBDA r : r.days = days)

\* variant: the later snapshot filtered on days instead of days + 1
SuccessStocks_SameTier(cur, days) == SelectSeq(cur.rows, LAMBDA r : r.days = days)

\* current_df[current_df[current_days_col] == days + 1]
SuccessStocks(cur, days) == SelectSeq(cur.rows, LAMBDA r : r.days = days + 1)

\* variant: the isin filter left out
FailedStocks_Unfiltered(prev_stocks, cur) == prev_stocks

\* variant: the negation of the isin mask left out
FailedStocks_NoNegation(prev_stocks, cur) ==
    SelectSeq(prev_stocks, LAMBDA r : r.code \in CodesOf(cur))

\* prev_stocks[~prev_stocks['股票代码'].isin(current_df['股票代码'])]
FailedStocks(prev_stocks, cur) ==
    SelectSeq(prev_stocks, LAMBDA r : r.code \notin CodesOf(cur))

\* the dict appended to promotion_data for one value of days
PromotionRow(cur, prev, days) ==
    LET prev_stocks == SelectAndRename(PrevStocks(prev, days))
        success_stocks == SelectAndRename(SuccessStocks(cur, days))
        failed_stocks == FailedStocks(prev_stocks, cur)
        total == Len(prev_stocks)
        success == Len(success_stocks)
    IN  [level |-> LevelStr(days), rate |-> RateStr(success, total),
         success_cases |-> success_stocks, failed_cases |-> failed_stocks,
         total_cases |-> total]

\* variant: the maximum of the earlier snapshot alone
MaxTier_PrevOnly(cur, prev) == IF ~IsEmpty(prev) THEN MaxDaysOf(prev) ELSE 0

\* max(current_df[days].max() if not current_df.empty else 0,
\*     previous_df[days].max() if not previous_df.empty else 0)
MaxTier(cur, prev) ==
    LET c == IF ~IsEmpty(cur) THEN MaxDaysOf(cur) ELSE 0
        p == IF ~IsEmpty(prev) THEN MaxDaysOf(prev) ELSE 0
    IN  IF c >= p THEN c ELSE p

\* variant: the early return taken only when the earlier snapshot is empty
PromotionRates_PrevGuardOnly(cur, prev) ==
    IF IsEmpty(prev)
    THEN [status |-> "ok", value |-> <<>>]
    ELSE IF MaxTier(cur, prev) >= 1
            /\ ("reason" \notin prev.columns \/ "reason" \notin cur.columns)
    THEN [status |-> "KeyError", value |-> <<>>]
    ELSE [status |-> "ok",
          value |-> [d \in 1..MaxTier(cur, prev) |-> PromotionRow(cur, prev, d)]]

\* variant: the early return taken only when both snapshots are empty
PromotionRates_AndGuard(cur, prev) ==
    IF IsEmpty(prev) /\ IsEmpty(cur)
    THEN [status |-> "ok", value |-> <<>>]
    ELSE IF MaxTier(cur, prev) >= 1
            /\ ("reason" \notin prev.columns \/ "reason" \notin cur.columns)
    THEN [status |-> "KeyError", value |-> <<>>]
    ELSE [status |-> "ok",
          value |-> [d \in 1..MaxTier(cur, prev) |-> PromotionRow(cur, prev, d)]]

\* the body of calculate_promotion_rates: the early return, the KeyError of
\* selecting a reason column the frame lacks, one row per days otherwise
PromotionRates(cur, prev) ==
    IF IsEmpty(prev) \/ IsEmpty(cur)
    THEN [status |-> "ok", value |-> <<>>]
    ELSE IF MaxTier(cur, prev) >= 1
            /\ ("reason" \notin prev.columns \/ "reason" \notin cur.columns)
    THEN [status |-> "KeyError", value |-> <<>>]
    ELSE [status |-> "ok",
          value |-> [d \in 1..MaxTier(cur, prev) |-> PromotionRow(cur, prev, d)]]

\* --------------------------------------------------------------------------
\* The snapshots the data provider can return
\* --------------------------------------------------------------------------
\* n stock codes, no code twice (a snapshot lists a stock once)
CodeSeqs(n) == {cs \in [1..n -> Codes] : \A i, j \in 1..n : i # j => cs[i] # cs[j]}

\* frames of at most m rows that have the reason column, its values in R,
\* the consecutive limit-up days in 1..d
FullFrames(R, m, d) ==
    UNION {{[columns |-> AllColumns,
             rows |-> [i \in 1..n |->
                          [code |-> cs[i], name |-> NameOf(cs[i]),
                           days |-> ds[i], reason |-> rs[i]]]] :
               cs \in CodeSeqs(n), ds \in [1..n -> 1..d], rs \in [1..n -> R]} :
           n \in 0..m}

\* frames of at most m rows that lack the reason column
BareFrames(m, d) ==
    UNION {{[columns |-> AllColumns \ {"reason"},
             rows |-> [i \in 1..n |->
                          [code |-> cs[i], name |-> NameOf(cs[i]), days |-> ds[i]]]] :
               cs \in CodeSeqs(n), ds \in [1..n -> 1..d]} :
           n \in 0..m}

RECURSIVE JoinTags(_)
\* '+'.join(tags): how the provider writes several concepts into one reason
JoinTags(tags) ==
    IF Len(tags) = 1 THEN tags[1]
    ELSE tags[1] \o <<"+">> \o JoinTags(Tail(tags))

\* the raw reason strings of the concept-count specification: one to
\* MaxTagsPerReason concepts joined by '+', the empty string, a string that
\* begins with the separator, and one with a concept of its own
ConceptReasons ==
    {JoinTags(ts) : ts \in UNION {[1..n -> Tags] : n \in 1..MaxTagsPerReason}}
        \cup {<<>>, <<"+", "x">>, <<"A", "I", "+", "y">>}

\* frames of at most m rows for the concept counts: the i-th row is the i-th
\* stock, one day at limit-up, its reason any of ConceptReasons
ConceptFrames(m) ==
    LET cs == <<"A", "B", "C", "D", "E">>
    IN  UNION {{[columns |-> AllColumns,
                 rows |-> [i \in 1..n |->
                              [code |-> cs[i], name |-> NameOf(cs[i]),
                               days |-> 1, reason |-> rs[i]]]] :
                   rs \in [1..n -> ConceptReasons]} :
               n \in 0..m}

NoCall == [op |-> "none", which |-> "-", status |-> "-", value |-> <<>>]

\* both snapshots carry every column (the shape the provider documents)
Init ==
    /\ previous_df \in FullFrames(PromoReasons, MaxRows, MaxDays)
    /\ current_df \in FullFrames(PromoReasons, MaxRows, MaxDays)
    /\ ret = NoCall

\* a snapshot may come without its reason column
InitMissing ==
    /\ previous_df \in FullFrames(PromoReasons, MaxBareRows, MaxBareDays)
                          \cup BareFrames(MaxBareRows, MaxBareDays)
    /\ current_df \in FullFrames(PromoReasons, MaxBareRows, MaxBareDays)
                         \cup BareFrames(MaxBareRows, MaxBareDays)
    /\ ret = NoCall

\* the earlier snapshot with any reason strings, the later one empty
InitConcepts ==
    /\ previous_df \in ConceptFrames(MaxTagRows)
    /\ current_df = [columns |-> AllColumns, rows |-> <<>>]
    /\ ret = NoCall

\* --------------------------------------------------------------------------
\* The calls
\* --------------------------------------------------------------------------
Frame(which) == IF which = "previous" THEN previous_df ELSE current_df

\* analyze_continuous_limit_up(df, date) on one of the two snapshots
AnalyzeContinuousLimitUp(which) ==
    LET df == EnsureReasonColumn(Frame(which))
    IN  /\ previous_df' = IF which = "previous" THEN df ELSE previous_df
        /\ current_df' = IF which = "current" THEN df ELSE current_df
        /\ ret' = [op |-> "analyze_continuous_limit_up", which |-> which,
                   status |-> "ok", value |-> ContinuousResult(df)]

\* get_concept_counts(df, date) on one of the two snapshots
GetConceptCounts(which) ==
    LET r == ConceptCounts(Frame(which))
    IN  /\ ret' = [op |-> "get_concept_counts", which |-> which,
                   status |-> r.status, value |-> r.value]
        /\ UNCHANGED <<previous_df, current_df>>

\* calculate_promotion_rates(current_df, previous_df, current_date, previous_date)
CalculatePromotionRates ==
    LET r == PromotionRates(current_df, previous_df)
    IN  /\ ret' = [op |-> "calculate_promotion_rates", which |-> "both",
                   status |-> r.status, value |-> r.value]
        /\ UNCHANGED <<previous_df, current_df>>

Next ==
    \/ \E which \in {"previous", "current"} : AnalyzeContinuousLimitUp(which)
    \/ \E which \in {"previous", "current"} : GetConceptCounts(which)
    \/ CalculatePromotionRates

Spec == Init /\ [][Next]_vars

SpecMissing == InitMissing /\ [][Next]_vars

SpecConcepts == InitConcepts /\ [][Next]_vars

\* --------------------------------------------------------------------------
\* Properties
\* --------------------------------------------------------------------------
\* the last call was calculate_promotion_rates
PromoCalled == ret.op = "calculate_promotion_rates"

\* ... and it returned its result frame
PromoReturned == PromoCalled /\ ret.status = "ok"

CodeSet(rows) == {rows[i].code : i \in 1..Len(rows)}

\* the rows of a frame at k consecutive limit-up days
AtDays(df, k) == {i \in 1..Len(df.rows) : df.rows[i].days = k}

\* the stock codes of the earlier snapshot's tier-k cohort
CohortCodes(k) == {previous_df.rows[i].code : i \in AtDays(previous_df, k)}

\* <<code, days>> of every row, in order
Brief(df) == [i \in 1..Len(df.rows) |-> <<df.rows[i].code, df.rows[i].days>>]

\* C1: calculate_promotion_rates returns an empty result, without raising,
\* whenever the earlier or the later snapshot is empty.
C1_EmptyInputEmptyResult ==
    (PromoCalled /\ (IsEmpty(previous_df) \/ IsEmpty(current_df)))
        => (ret.status = "ok" /\ ret.value = <<>>)

\* one snapshot empty, the other not and without its reason column
C1_Witness ==
    /\ PromoCalled
    /\ IsEmpty(current_df) /\ ~IsEmpty(previous_df)
    /\ "reason" \notin previous_df.columns
    /\ ret.status = "ok"

\* C2 (as stated): for earlier = [A:1] and later = [], the call emits a
\* tier-1 result with total 1, no success, fail_set {A} and rate "0/1=0%".
C2_Original ==
    (PromoCalled /\ Brief(previous_df) = << <<"A", 1>> >> /\ IsEmpty(current_df))
        => /\ ret.status = "ok"
           /\ Len(ret.value) = 1
           /\ ret.value[1].total_cases = 1
           /\ ret.value[1].success_cases = <<>>
           /\ CodeSet(ret.value[1].failed_cases) = {"A"}
           /\ ret.value[1].rate = "0/1=0%"

\* C2 (amended): for earlier = [A:1] and later = [], the call returns the
\* empty result: no tier-1 result is emitted.
C2_EmptyLaterNoTier ==
    (PromoCalled /\ Brief(previous_df) = << <<"A", 1>> >> /\ IsEmpty(current_df))
        => (ret.status = "ok" /\ ret.value = <<>>)

C2_Witness ==
    /\ PromoCalled
    /\ Brief(previous_df) = << <<"A", 1>> >> /\ IsEmpty(current_df)
    /\ ret.value = <<>>

\* C3: for non-empty snapshots and every emitted tier k, total is the number
\* of earlier records at k days, success_set is exactly the later records at
\* k+1 days (cohort members or not), and fail_set is exactly the cohort
\* records whose code is nowhere in the later snapshot.
C3_TierSets ==
    PromoReturned =>
        \A k \in 1..Len(ret.value) :
            LET row == ret.value[k]
                promoted == AtDays(current_df, k + 1)
                gone == {i \in AtDays(previous_df, k) :
                            previous_df.rows[i].code \notin CodeSet(current_df.rows)}
            IN  /\ row.total_cases = Cardinality(AtDays(previous_df, k))
                /\ Len(row.success_cases) = Cardinality(promoted)
                /\ CodeSet(row.success_cases)
                       = {current_df.rows[i].code : i \in promoted}
                /\ Len(row.failed_cases) = Cardinality(gone)
                /\ CodeSet(row.failed_cases)
                       = {previous_df.rows[i].code : i \in gone}

\* earlier = [A:1, B:1], later = [A:2]: total 2, success {A}, fail {B}
C3_Witness ==
    /\ PromoReturned
    /\ Brief(previous_df) = << <<"A", 1>>, <<"B", 1>> >>
    /\ Brief(current_df) = << <<"A", 2>> >>
    /\ ret.value[1].total_cases = 2
    /\ CodeSet(ret.value[1].success_cases) = {"A"}
    /\ CodeSet(ret.value[1].failed_cases) = {"B"}
    /\ ret.value[1].rate = "1/2=50%"

\* C4: in every emitted tier, no stock code is in both success_set and
\* fail_set.
C4_Disjoint ==
    PromoReturned =>
        \A k \in 1..Len(ret.value) :
            CodeSet(ret.value[k].success_cases)
                \cap CodeSet(ret.value[k].failed_cases) = {}

\* a tier with a promoted stock and a vanished one
C4_Witness ==
    /\ PromoReturned
    /\ \E k \in 1..Len(ret.value) :
          /\ ret.value[k].success_cases # <<>>
          /\ ret.value[k].failed_cases # <<>>
          /\ CodeSet(ret.value[k].success_cases) \subseteq CohortCodes(k)

\* C5: in every emitted tier, rate is "<success>/<total>=<p>%" with success
\* the size of success_set and p the whole percent nearest to success/total
\* when total > 0, and "N/A" when total = 0.
C5_RateString ==
    PromoReturned =>
        \A k \in 1..Len(ret.value) :
            LET row == ret.value[k]
                n == Len(row.success_cases)
                t == row.total_cases
            IN  IF t > 0
                THEN \E p \in 0..(100 * n) :
                        /\ 2 * (100 * n - p * t) <= t
                        /\ 2 * (p * t - 100 * n) <= t
                        /\ row.rate = IntToStr(n) \o "/" \o IntToStr(t)
                                          \o "=" \o IntToStr(p) \o "%"
                ELSE row.rate = "N/A"

\* a rounded percentage and, in the same result, a tier without cohort
C5_Witness ==
    /\ PromoReturned
    /\ Len(ret.value) = 2
    /\ ret.value[1].total_cases = 3
    /\ ret.value[1].rate = "2/3=67%"
    /\ ret.value[2].total_cases = 0
    /\ ret.value[2].rate = "N/A"

\* C6: for non-empty snapshots the call emits one result per tier
\* k = 1..max_tier, in ascending order, none skipped or repeated, max_tier
\* being the larger of the two snapshots' maximum consecutive_limit_days.
C6_OneRowPerTier ==
    (PromoReturned /\ ~IsEmpty(previous_df) /\ ~IsEmpty(current_df)) =>
        LET days == {previous_df.rows[i].days : i \in 1..Len(previous_df.rows)}
                        \cup {current_df.rows[i].days : i \in 1..Len(current_df.rows)}
        IN  /\ Len(ret.value) \in days
            /\ \A d \in days : d <= Len(ret.value)
            /\ \A k \in 1..Len(ret.value) :
                  ret.value[k].level = IntToStr(k) \o "jin" \o IntToStr(k + 1)

\* the later snapshot holds the maximum, and the top tier has no cohort
C6_Witness ==
    /\ PromoReturned
    /\ ~IsEmpty(previous_df) /\ ~IsEmpty(current_df)
    /\ \A i \in 1..Len(previous_df.rows) : previous_df.rows[i].days = 1
    /\ Len(ret.value) = 2
    /\ ret.value[2].level = "2jin3"
    /\ ret.value[2].total_cases = 0

\* the number of '+'-delimited pieces of s that are equal to t
PieceCount(s, t) ==
    IF \E i \in 1..Len(t) : t[i] = "+" THEN 0
    ELSE Cardinality({i \in 1..(Len(s) + 1) :
            LET j == i + Len(t) - 1
            IN  /\ j <= Len(s)
                /\ SubSeq(s, i, j) = t
                /\ (i = 1 \/ s[i - 1] = "+")
                /\ (j = Len(s) \/ s[j + 1] = "+")})

RECURSIVE SumPieces(_, _)
SumPieces(rows, t) ==
    IF rows = <<>> THEN 0
    ELSE PieceCount(Head(rows).reason, t) + SumPieces(Tail(rows), t)

\* every substring of every reason of the rows
Substrings(rows) ==
    UNION {{SubSeq(rows[n].reason, i, j) :
               i \in 1..(Len(rows[n].reason) + 1), j \in 0..Len(rows[n].reason)} :
           n \in 1..Len(rows)}

\* C7: get_concept_counts returns, for every tag obtained by splitting a
\* record's reason on '+', the number of its occurrences over all records,
\* and no entry for anything else.
C7_ConceptCounts ==
    (ret.op = "get_concept_counts" /\ ret.status = "ok") =>
        LET rows == Frame(ret.which).rows
        IN  \A t \in DOMAIN ret.value \cup Substrings(rows) :
                IF SumPieces(rows, t) > 0
                THEN t \in DOMAIN ret.value /\ ret.value[t] = SumPieces(rows, t)
                ELSE t \notin DOMAIN ret.value

\* ["AI+x", "AI+y"] gives AI: 2, x: 1, y: 1
C7_Witness ==
    /\ ret.op = "get_concept_counts" /\ ret.which = "previous"
    /\ Len(previous_df.rows) = 2
    /\ previous_df.rows[1].reason = <<"A", "I", "+", "x">>
    /\ previous_df.rows[2].reason = <<"A", "I", "+", "y">>
    /\ DOMAIN ret.value = {<<"A", "I">>, <<"x">>, <<"y">>}
    /\ ret.value[<<"A", "I">>] = 2
    /\ ret.value[<<"x">>] = 1
    /\ ret.value[<<"y">>] = 1

\* C8: on a snapshot without the reason column, each of the three operations
\* puts the placeholder in place of the reason and does not fail, whichever
\* of them runs first.
C8_PlaceholderNotFailure ==
    /\ ret.status # "KeyError"
    /\ (ret.op = "get_concept_counts"
            /\ "reason" \notin Frame(ret.which).columns
            /\ ~IsEmpty(Frame(ret.which)))
        => ret.value = [t \in {WEIZHI} |-> Len(Frame(ret.which).rows)]

\* C9: no operation changes a snapshot: rows, columns and values stay as
\* they were.
C9_SnapshotsReadOnly ==
    [][previous_df' = previous_df /\ current_df' = current_df]_vars

\* C10 (as stated): in every tier with total > 0, the sizes of success_set
\* and fail_set together do not exceed total.
C10_Original ==
    PromoReturned =>
        \A k \in 1..Len(ret.value) :
            ret.value[k].total_cases > 0 =>
                Len(ret.value[k].success_cases) + Len(ret.value[k].failed_cases)
                    <= ret.value[k].total_cases

\* C10 (amended): in every tier with total > 0, fail_set is no larger than
\* total, and success_set and fail_set together do not exceed total when
\* every success_set stock belongs to the tier's cohort.
C10_BoundedWithinCohort ==
    PromoReturned =>
        \A k \in 1..Len(ret.value) :
            ret.value[k].total_cases > 0 =>
                /\ Len(ret.value[k].failed_cases) <= ret.value[k].total_cases
                /\ CodeSet(ret.value[k].success_cases) \subseteq CohortCodes(k)
                      => Len(ret.value[k].success_cases)
                             + Len(ret.value[k].failed_cases)
                           <= ret.value[k].total_cases

\* a cohort of three: one promoted, one vanished, one neither
C10_Witness ==
    /\ PromoReturned
    /\ \E k \in 1..Len(ret.value) :
          /\ ret.value[k].total_cases = 3
          /\ Len(ret.value[k].success_cases) = 1
          /\ Len(ret.value[k].failed_cases) = 1
          /\ CodeSet(ret.value[k].success_cases) \subseteq CohortCodes(k)

====
